---- MODULE Spec2Model ----
(***************************************************************************)
(* kedro.config.config.ConfigLoader: layered configuration loading.        *)
(*                                                                         *)
(* Python strings are modelled as sequences of tokens (a token is a word   *)
(* or one of "*", "/", ".yml", ...), so that f-strings and path joins are  *)
(* concatenations and glob patterns can be matched token by token.         *)
(* Python values that may be None, a string or a dict are tagged records.  *)
(***************************************************************************)
EXTENDS Integers, Sequences, FiniteSets, TLC

VARIABLES
    fs,               \* the filesystem: directory path -> (relative file path -> content)
    conf_source,      \* self.conf_source
    base_env,         \* self.base_env
    default_run_env,  \* self.default_run_env
    env,              \* self.env (None or a string)
    args,             \* the constructor's catalog/parameters/credentials/logging arguments
    status,           \* "new" (before __init__ runs), "ready", "failed" (__init__ raised)
    mapping,          \* self.mapping: section name -> config, set by super().__init__
    last,             \* the last call made and its outcome
    memo              \* one remembered earlier get call and its outcome

vars == <<fs, conf_source, base_env, default_run_env, env, args, status, mapping, last, memo>>

----------------------------------------------------------------------------
(* Bounds of the model *)

\* at most this many files exist under conf_source
MaxFiles == 3

\* the same, where sequences of get calls are compared with one another
MaxFilesIdem == 2

----------------------------------------------------------------------------
(* Python values *)

EmptyMap == <<>>

None == [kind |-> "none", str |-> <<>>, dict |-> <<>>]

Str(s) == [kind |-> "str", str |-> s, dict |-> <<>>]

Dict(d) == [kind |-> "dict", str |-> <<>>, dict |-> d]

\* Python truthiness: None, "" and {} are falsy
Truthy(v) ==
    CASE v.kind = "none" -> FALSE
      [] v.kind = "str"  -> v.str # <<>>
      [] v.kind = "dict" -> DOMAIN v.dict # {}

\* Python's  a or b
Or(a, b) == IF Truthy(a) THEN a ELSE b

\* dict.update: keys of m replace those of acc, whole value at a time
Overlay(acc, m) ==
    [k \in (DOMAIN acc) \cup (DOMAIN m) |-> IF k \in DOMAIN m THEN m[k] ELSE acc[k]]

----------------------------------------------------------------------------
(* The four essential sections, in the order __init__ resolves them *)

SectionOrder == << <<"catalog">>, <<"parameters">>, <<"credentials">>, <<"logging">> >>

Sections == {SectionOrder[i] : i \in 1..Len(SectionOrder)}

----------------------------------------------------------------------------
(* Path resolution *)

RECURSIVE SplitPath(_)
\* the "/"-separated segments of a token sequence
SplitPath(s) ==
    IF \A i \in 1..Len(s) : s[i] # "/" THEN <<s>>
    ELSE LET i == CHOOSE j \in 1..Len(s) : s[j] = "/" /\ \A k \in 1..(j - 1) : s[k] # "/"
         IN  <<SubSeq(s, 1, i - 1)>> \o SplitPath(SubSeq(s, i + 1, Len(s)))

RECURSIVE DropEmptyAndDot(_)
\* pathlib drops the empty segments (doubled and trailing "/") and the "."
\* segments of a path; ".." segments stay
DropEmptyAndDot(segs) ==
    IF segs = <<>> THEN <<>>
    ELSE IF Head(segs) = <<>> \/ Head(segs) = <<".">>
         THEN DropEmptyAndDot(Tail(segs))
         ELSE <<Head(segs)>> \o DropEmptyAndDot(Tail(segs))

\* the parts of a path after its root
PathParts(s) == DropEmptyAndDot(SplitPath(s))

\* the root of a POSIX path: "/" when it is absolute, "//" when it starts with
\* exactly two slashes, nothing when it is relative
PathRoot(s) ==
    IF s = <<>> \/ s[1] # "/" THEN <<>>
    ELSE IF Len(s) >= 2 /\ s[2] = "/" /\ (Len(s) = 2 \/ s[3] # "/")
         THEN <<"/", "/">>
         ELSE <<"/">>

RECURSIVE JoinParts(_)
\* the parts written with "/" between them
JoinParts(parts) ==
    IF parts = <<>> THEN <<>>
    ELSE IF Len(parts) = 1 THEN parts[1]
         ELSE parts[1] \o <<"/">> \o JoinParts(Tail(parts))

\* str() of a path with the given root and parts; the empty path is "."
PathStr(root, parts) ==
    IF root = <<>> /\ parts = <<>> THEN <<".">> ELSE root \o JoinParts(parts)

\* str(Path(p) / s): an absolute s replaces p, otherwise the parts of s follow
\* those of p; the result is normalised
PathJoin(p, s) ==
    IF PathRoot(s) # <<>>
    THEN PathStr(PathRoot(s), PathParts(s))
    ELSE PathStr(PathRoot(p), PathParts(p) \o PathParts(s))

\* a plausible slip: the run environment ignores self.env
BuildConfPathsIgnoringEnv(self) ==
    << PathJoin(self.conf_source, self.base_env),
       PathJoin(self.conf_source, self.default_run_env) >>

\* a plausible slip: the run environment is processed before the base one
BuildConfPathsRunFirst(self) ==
    LET run_env == Or(self.env, Str(self.default_run_env)).str
    IN  << PathJoin(self.conf_source, run_env),
           PathJoin(self.conf_source, self.base_env) >>

_build_conf_paths(self) ==
    LET run_env == Or(self.env, Str(self.default_run_env)).str
    IN  << PathJoin(self.conf_source, self.base_env),
           PathJoin(self.conf_source, run_env) >>

RECURSIVE _remove_duplicates(_)
\* duplicates removed, the first occurrence kept, order preserved
_remove_duplicates(items) ==
    IF items = <<>> THEN <<>>
    ELSE LET front == _remove_duplicates(SubSeq(items, 1, Len(items) - 1))
             x == items[Len(items)]
         IN  IF \E i \in 1..Len(front) : front[i] = x THEN front ELSE Append(front, x)

conf_paths(self) == _remove_duplicates(_build_conf_paths(self))

----------------------------------------------------------------------------
(* Glob matching of a pattern against a file path relative to a directory *)

SupportedExtensions ==
    {".yaml", ".yml", ".json", ".ini", ".pickle", ".pkl", ".xml", ".properties"}

RECURSIVE SegmentMatch(_, _)
\* one path segment against one pattern segment; "*" stands for any run of tokens
SegmentMatch(p, f) ==
    IF p = <<>> THEN f = <<>>
    ELSE IF Head(p) = "*"
         THEN \E k \in 0..Len(f) : SegmentMatch(Tail(p), SubSeq(f, k + 1, Len(f)))
         ELSE f # <<>> /\ Head(f) = Head(p) /\ SegmentMatch(Tail(p), Tail(f))

RECURSIVE SegmentsMatch(_, _)
\* a "**" segment stands for any number of directories; when it is the last
\* segment it stands for every file below the directory matched so far
SegmentsMatch(ps, fsegs) ==
    IF ps = <<>> THEN fsegs = <<>>
    ELSE IF Head(ps) = <<"*", "*">>
         THEN IF Tail(ps) = <<>> THEN fsegs # <<>>
              ELSE \E k \in 0..Len(fsegs) :
                       SegmentsMatch(Tail(ps), SubSeq(fsegs, k + 1, Len(fsegs)))
         ELSE /\ fsegs # <<>>
              /\ SegmentMatch(Head(ps), Head(fsegs))
              /\ SegmentsMatch(Tail(ps), Tail(fsegs))

GlobMatch(pattern, file) == SegmentsMatch(SplitPath(pattern), SplitPath(file))

----------------------------------------------------------------------------
(* Discovery and merge *)

FilesIn(dir) == IF dir \in DOMAIN fs THEN fs[dir] ELSE EmptyMap

\* the supported files of dir that some pattern matches; a pattern that is not
\* a string names no file
MatchedFiles(dir, patterns) ==
    {f \in DOMAIN FilesIn(dir) :
        /\ f[Len(f)] \in SupportedExtensions
        /\ \E i \in 1..Len(patterns) :
               patterns[i].kind = "str" /\ GlobMatch(patterns[i].str, f)}

Ok(config) == [kind |-> "ok", config |-> config]

Raise(exc) == [kind |-> exc, config |-> EmptyMap]

\* every file of files is parsed, then they are merged, and a key that two of
\* them define is rejected; content gives each file's parse result
LoadFiles(content, files) ==
    IF \E f \in files : ~content[f].ok THEN Raise("ParseError")
    ELSE IF \E f, g \in files :
                f # g /\ (DOMAIN content[f].data) \cap (DOMAIN content[g].data) # {}
         THEN Raise("DuplicateKeyConflict")
         ELSE Ok([k \in UNION {DOMAIN content[f].data : f \in files} |->
                    content[CHOOSE f \in files : k \in DOMAIN content[f].data].data[k]])

\* the merged mapping of one directory, and how many files it came from
LoadDirectory(dir, patterns) ==
    [new_conf |-> LoadFiles(FilesIn(dir), MatchedFiles(dir, patterns)),
     nfiles |-> Cardinality(MatchedFiles(dir, patterns))]

RECURSIVE MergeFrom(_, _, _, _, _)

\* one directory's result d taken into the aggregate
MergeStep(paths, patterns, i, config, nfiles, d) ==
    IF d.new_conf.kind # "ok" THEN d.new_conf
    ELSE MergeFrom(paths, patterns, i + 1, Overlay(config, d.new_conf.config),
                   nfiles + d.nfiles)

\* the directories from the i-th on, overlaid in order on config; the first error
\* ends the walk, and finding no file at all is the missing-configuration error
MergeFrom(paths, patterns, i, config, nfiles) ==
    IF i > Len(paths)
    THEN IF nfiles = 0 THEN Raise("MissingConfigException") ELSE Ok(config)
    ELSE MergeStep(paths, patterns, i, config, nfiles, LoadDirectory(paths[i], patterns))

_get_config_from_patterns(paths, patterns) == MergeFrom(paths, patterns, 1, EmptyMap, 0)

----------------------------------------------------------------------------
(* ConfigLoader *)

\* the loader object as the methods see it
Self ==
    [conf_source |-> conf_source, base_env |-> base_env,
     default_run_env |-> default_run_env, env |-> env, mapping |-> mapping]

\* what a call gives back: the mapping returned or the exception raised, the
\* pattern list it handed to discovery-and-merge (if it ran it), warnings emitted
Answer(kind, config, discovered, handed, warned) ==
    [kind |-> kind, config |-> config, discovered |-> discovered,
     handed |-> handed, warned |-> warned]

\* self.mapping.get(key)
MappingGet(m, key) ==
    IF key.kind = "str" /\ key.str \in DOMAIN m THEN Dict(m[key.str]) ELSE None

\* what get returns once discovery-and-merge has given found
Discovered(found, patterns) == Answer(found.kind, found.config, TRUE, patterns, 0)

\* a missing configuration turned into an empty mapping
Swallowed(found, patterns) ==
    IF found.kind = "MissingConfigException"
    THEN Answer("ok", EmptyMap, TRUE, patterns, 0)
    ELSE Answer(found.kind, found.config, TRUE, patterns, 0)

\* a plausible slip: a missing configuration is swallowed by get as well
GetSwallowingMissing(self, patterns) ==
    IF Len(patterns) = 1 /\ Truthy(MappingGet(self.mapping, patterns[1]))
    THEN Answer("ok", MappingGet(self.mapping, patterns[1]).dict, FALSE, <<>>, 0)
    ELSE Swallowed(_get_config_from_patterns(conf_paths(self), patterns), patterns)

\* value = self.mapping.get(patterns[0]) for a single pattern, else None;
\* return value or _get_config_from_patterns(self.conf_paths, list(patterns))
get(self, patterns) ==
    IF Len(patterns) = 1 /\ Truthy(MappingGet(self.mapping, patterns[1]))
    THEN Answer("ok", MappingGet(self.mapping, patterns[1]).dict, FALSE, <<>>, 0)
    ELSE Discovered(_get_config_from_patterns(conf_paths(self), patterns), patterns)

\* a plausible slip: the tuple loses its last element and swaps the first two
EssentialPatternsShort(config_type, provided_patterns) ==
    << Str(config_type \o <<"*", "/", "*", "*">>),
       Or(provided_patterns, Str(config_type \o <<"*">>)) >>

\* the tuple built on the first line of get_essential_config, as a list:
\* (provided_patterns or f"{t}*", f"{t}*/**", f"**/{t}*")
EssentialPatterns(config_type, provided_patterns) ==
    << Or(provided_patterns, Str(config_type \o <<"*">>)),
       Str(config_type \o <<"*", "/", "*", "*">>),
       Str(<<"*", "*", "/">> \o config_type \o <<"*">>) >>

\* the except clause: the exceptions of caught are replaced by a warning and {}
Except(caught, found, patterns) ==
    IF found.kind \in caught
    THEN Answer("ok", EmptyMap, TRUE, patterns, 1)
    ELSE Answer(found.kind, found.config, TRUE, patterns, 0)

\* the try block of get_essential_config with its except clause
TryDiscovery(self, patterns, caught) ==
    Except(caught, _get_config_from_patterns(conf_paths(self), patterns), patterns)

\* a plausible slip: nothing is caught
GetEssentialConfigNoCatch(self, config_type, provided_patterns) ==
    TryDiscovery(self, EssentialPatterns(config_type, provided_patterns), {})

\* a plausible slip: the except clause also catches the duplicate-key error
GetEssentialConfigCatchDuplicate(self, config_type, provided_patterns) ==
    TryDiscovery(self, EssentialPatterns(config_type, provided_patterns),
                 {"MissingConfigException", "DuplicateKeyConflict"})

\* a plausible slip: a bare except catches every exception
GetEssentialConfigCatchAll(self, config_type, provided_patterns) ==
    TryDiscovery(self, EssentialPatterns(config_type, provided_patterns),
                 {"MissingConfigException", "DuplicateKeyConflict", "ParseError"})

get_essential_config(self, config_type, provided_patterns) ==
    TryDiscovery(self, EssentialPatterns(config_type, provided_patterns),
                 {"MissingConfigException"})

\* the record __init__ keeps of one bootstrap call
Bootstrap(config_type, r) ==
    [config_type |-> config_type, kind |-> r.kind, config |-> r.config,
     discovered |-> r.discovered, handed |-> r.handed, warned |-> r.warned]

RECURSIVE InitFrom(_, _, _, _)

\* one bootstrap's record taken into __init__'s progress; an exception ends it
InitStep(self, a, i, done, step) ==
    IF step.kind # "ok" THEN Append(done, step)
    ELSE InitFrom(self, a, i + 1, Append(done, step))

\* the four bootstrap calls of __init__, in order, from the i-th on
InitFrom(self, a, i, done) ==
    IF i > Len(SectionOrder) THEN done
    ELSE InitStep(self, a, i, done,
                  Bootstrap(SectionOrder[i],
                            get_essential_config(self, SectionOrder[i], a[SectionOrder[i]])))

\* ConfigLoader.__init__: the bootstraps it ran, the last one failed if it raised
__init__(self, a) == InitFrom(self, a, 1, <<>>)

\* super().__init__(catalog=..., parameters=..., credentials=..., logging=...):
\* the section mapping held by the loader
SuperInit(bootstraps) ==
    [s \in Sections |->
        bootstraps[CHOOSE i \in 1..Len(bootstraps) : bootstraps[i].config_type = s].config]

----------------------------------------------------------------------------
(* The inputs the model draws from *)

\* the environment directories that hold files
BaseDir == <<"conf", "/", "base">>

LocalDir == <<"conf", "/", "local">>

EnvDirs == {BaseDir, LocalDir}

\* places a file may be at: a directory and a path relative to it
Slots ==
    { <<BaseDir, <<"catalog", ".yml">>>>,                   \* catalog*, **/catalog*
      <<BaseDir, <<"logging", "/", "catalog", ".yml">>>>,   \* **/catalog*, logging*/**
      <<BaseDir, <<"db", ".ini">>>>,                        \* no essential section
      <<BaseDir, <<"catalog", ".md">>>>,                    \* not a supported extension
      <<LocalDir, <<"catalog", ".yml">>>>,
      <<LocalDir, <<"db", ".ini">>>> }

Parsed(d) == [ok |-> TRUE, data |-> d]

Unparseable == [ok |-> FALSE, data |-> EmptyMap]

\* the value a file of a directory gives its keys: a nested mapping, so that a
\* deep merge across directories would differ from replacing the whole value
ValueOf(dir) == IF dir = BaseDir THEN "x" :> 1 ELSE "y" :> 2

\* what a file may hold: the top-level key a, the top-level key b, or text its
\* parser rejects
ContentKinds == {"a", "b", "unparseable"}

ContentOf(dir, kind) ==
    IF kind = "unparseable" THEN Unparseable ELSE Parsed(kind :> ValueOf(dir))

\* the filesystem that has the files of S with the kinds of content c gives them
FileSystem(S, c) ==
    [d \in EnvDirs |->
        [f \in {sl[2] : sl \in {x \in S : x[1] = d}} |-> ContentOf(d, c[<<d, f>>])]]

FileSystemsUpTo(n) ==
    UNION { {FileSystem(S, c) : c \in [S -> ContentKinds]}
            : S \in {T \in SUBSET Slots : Cardinality(T) <= n} }

FileSystems == FileSystemsUpTo(MaxFiles)

FileCount(files) == Cardinality({sl \in Slots : sl[2] \in DOMAIN files[sl[1]]})

\* the constructor's overrides: none, or a catalog
ConstructorArgs ==
    { [s \in Sections |-> IF s = <<"catalog">> THEN c ELSE None]
      : c \in {None, Dict("a" :> ("z" :> 3))} }

\* pattern lists passed to get
GetInputs ==
    { << Str(<<"catalog">>) >>,
      << Str(<<"logging">>) >>,
      << Str(<<"catalog", "*">>) >>,
      << Str(<<"*", "*", "/", "catalog", "*">>) >>,
      << Str(<<"catalog", "*">>), Str(<<"db", "*">>) >>,
      << Str(<<"nothing", "*">>) >> }

\* provided_patterns passed to a direct get_essential_config call
ProvidedInputs == { None, Str(<<"db", "*">>) }

NoCall ==
    [op |-> "none", patterns |-> <<>>, config_type |-> <<>>, provided |-> None,
     kind |-> "ok", config |-> EmptyMap, discovered |-> FALSE, handed |-> <<>>,
     warned |-> 0, bootstraps |-> <<>>, paths |-> <<>>]

\* between: a get with other patterns ran after the remembered one
NoMemo ==
    [set |-> FALSE, patterns |-> <<>>, kind |-> "ok", config |-> EmptyMap,
     between |-> FALSE]

----------------------------------------------------------------------------
(* The state machine *)

Init ==
    /\ fs \in FileSystems
    /\ conf_source = <<"conf">>
    /\ base_env = <<"base">>
    /\ default_run_env = <<"local">>
    /\ env \in {None, Str(<<"base">>)}
    /\ args \in ConstructorArgs
    /\ status = "new"
    /\ mapping = EmptyMap
    /\ last = NoCall
    /\ memo = NoMemo

\* the state __init__ leaves, given the bootstraps it ran
Constructed(bootstraps) ==
    /\ status' = IF bootstraps[Len(bootstraps)].kind # "ok" THEN "failed" ELSE "ready"
    /\ mapping' = IF bootstraps[Len(bootstraps)].kind # "ok" THEN mapping
                  ELSE SuperInit(bootstraps)
    /\ last' = [NoCall EXCEPT
                  !.op = "__init__",
                  !.kind = bootstraps[Len(bootstraps)].kind,
                  !.discovered = TRUE,
                  !.warned = Cardinality({i \in 1..Len(bootstraps) : bootstraps[i].warned = 1}),
                  !.bootstraps = bootstraps]

\* ConfigLoader(conf_source, catalog, parameters, credentials, logging, env, ...)
Construct ==
    /\ status = "new"
    /\ Constructed(__init__(Self, args))
    /\ UNCHANGED <<fs, conf_source, base_env, default_run_env, env, args, memo>>

\* the record of a get call that gave r
GetRecord(patterns, r) == r @@ [NoCall EXCEPT !.op = "get", !.patterns = patterns]

\* a plausible slip: get stores what discovery found in the section mapping
GetCaching(patterns) ==
    /\ status = "ready"
    /\ last' = GetRecord(patterns, get(Self, patterns))
    /\ mapping' = IF last'.kind = "ok" /\ last'.discovered /\ Len(patterns) = 1
                  THEN Overlay(mapping, patterns[1].str :> last'.config)
                  ELSE mapping
    /\ UNCHANGED <<fs, conf_source, base_env, default_run_env, env, args, status>>

\* loader.get(*patterns)
GetCall(patterns) ==
    /\ status = "ready"
    /\ last' = GetRecord(patterns, get(Self, patterns))
    /\ UNCHANGED <<fs, conf_source, base_env, default_run_env, env, args, status, mapping>>

Get ==
    \E patterns \in GetInputs :
        /\ GetCall(patterns)
        /\ memo' = IF memo.set /\ patterns # memo.patterns
                   THEN [memo EXCEPT !.between = TRUE]
                   ELSE memo

\* the same call, remembered for comparison with a later one
GetAndRemember ==
    \E patterns \in GetInputs :
        /\ GetCall(patterns)
        /\ memo' = [set |-> TRUE, patterns |-> patterns, kind |-> last'.kind,
                    config |-> last'.config, between |-> FALSE]

\* loader.get_essential_config(config_type, provided_patterns)
GetEssentialConfig ==
    /\ status = "ready"
    /\ \E config_type \in Sections, provided \in ProvidedInputs :
          last' = get_essential_config(Self, config_type, provided) @@
                  [NoCall EXCEPT !.op = "get_essential_config",
                                 !.config_type = config_type, !.provided = provided]
    /\ UNCHANGED <<fs, conf_source, base_env, default_run_env, env, args, status, mapping, memo>>

\* loader.conf_paths
GetConfPaths ==
    /\ status = "ready"
    /\ last' = [NoCall EXCEPT !.op = "conf_paths", !.paths = conf_paths(Self)]
    /\ UNCHANGED <<fs, conf_source, base_env, default_run_env, env, args, status, mapping, memo>>

Next == Construct \/ Get \/ GetEssentialConfig

Spec == Init /\ [][Next]_vars

----------------------------------------------------------------------------
(* Sequences of get calls, one of them remembered *)

InitIdem ==
    /\ fs \in FileSystemsUpTo(MaxFilesIdem)
    /\ conf_source = <<"conf">>
    /\ base_env = <<"base">>
    /\ default_run_env = <<"local">>
    /\ env \in {None, Str(<<"base">>)}
    /\ args \in ConstructorArgs
    /\ status = "new"
    /\ mapping = EmptyMap
    /\ last = NoCall
    /\ memo = NoMemo

NextIdem == Construct \/ Get \/ GetAndRemember

SpecIdem == InitIdem /\ [][NextIdem]_vars

----------------------------------------------------------------------------
(* Path resolution over every combination of the construction parameters *)

InitPaths ==
    /\ fs = FileSystem({}, <<>>)
    /\ conf_source \in { <<"conf">>, <<".", "/", "conf">>, <<"proj", "/", "conf", "/">>,
                         <<"/", "proj", "/", "/", "conf">>, <<>> }
    /\ base_env \in { <<"base">>, <<"local">>, <<>> }
    /\ default_run_env \in { <<"local">>, <<"base">>, <<>> }
    /\ env \in { None, Str(<<>>), Str(<<"base">>), Str(<<"base", "/">>),
                 Str(<<".", "/", "base">>), Str(<<"local">>), Str(<<"..", "/", "prod">>),
                 Str(<<"/", "abs">>) }
    /\ args = [s \in Sections |-> None]
    /\ status = "new"
    /\ mapping = EmptyMap
    /\ last = NoCall
    /\ memo = NoMemo

NextPaths == Construct \/ GetConfPaths

SpecPaths == InitPaths /\ [][NextPaths]_vars

----------------------------------------------------------------------------
(* What the properties below speak of *)

\* the run environment and the two directories, written out from the parameters
RunEnv == IF env.kind = "str" /\ env.str # <<>> THEN env.str ELSE default_run_env

\* conf_source/base_env and conf_source/run_env, as paths
BaseEnvDir == PathJoin(conf_source, base_env)

RunEnvDir == PathJoin(conf_source, RunEnv)

ResolvedDirs == {BaseEnvDir, RunEnvDir}

\* the top-level keys the matched files of a directory define, and their values
KeysIn(dir, patterns) ==
    UNION {DOMAIN FilesIn(dir)[f].data : f \in MatchedFiles(dir, patterns)}

ValueIn(dir, patterns, k) ==
    FilesIn(dir)[CHOOSE f \in MatchedFiles(dir, patterns) :
                     k \in DOMAIN FilesIn(dir)[f].data].data[k]

\* two different matched files of dir define the same top-level key
Collision(dir, patterns) ==
    \E f, g \in MatchedFiles(dir, patterns) :
        f # g /\ (DOMAIN FilesIn(dir)[f].data) \cap (DOMAIN FilesIn(dir)[g].data) # {}

SomeCollision(patterns) == \E d \in ResolvedDirs : Collision(d, patterns)

SomeUnparseable(patterns) ==
    \E d \in ResolvedDirs : \E f \in MatchedFiles(d, patterns) : ~FilesIn(d)[f].ok

NoMatch(patterns) == \A d \in ResolvedDirs : MatchedFiles(d, patterns) = {}

\* "{type}*", "{type}*/**", "**/{type}*"
DefaultPatterns(t) ==
    << Str(t \o <<"*">>), Str(t \o <<"*", "/", "*", "*">>), Str(<<"*", "*", "/">> \o t \o <<"*">>) >>

\* the runs of discovery-and-merge the last call made: the patterns handed over
\* and what the caller made of the result
Runs ==
    IF last.op = "__init__"
    THEN {[op |-> "bootstrap", handed |-> last.bootstraps[i].handed,
           kind |-> last.bootstraps[i].kind, config |-> last.bootstraps[i].config,
           warned |-> last.bootstraps[i].warned] : i \in 1..Len(last.bootstraps)}
    ELSE IF last.op \in {"get", "get_essential_config"} /\ last.discovered
         THEN {[op |-> last.op, handed |-> last.handed, kind |-> last.kind,
                config |-> last.config, warned |-> last.warned]}
         ELSE {}

\* get took the shortcut: one pattern, a section name whose stored value is non-empty
FastPath ==
    /\ Len(last.patterns) = 1
    /\ last.patterns[1].str \in DOMAIN mapping
    /\ mapping[last.patterns[1].str] # EmptyMap

----------------------------------------------------------------------------
(* C1 *)

\* C1: a get call that runs discovery-and-merge and raises nothing returns a
\* mapping whose keys are exactly the top-level keys of the matched files of the
\* resolved directories; a key the run-environment directory defines has that
\* directory's whole value, any other key has the base directory's value.
C1_LastDirectoryWins ==
    (last.op = "get" /\ last.discovered /\ last.kind = "ok") =>
        /\ DOMAIN last.config =
               KeysIn(BaseEnvDir, last.patterns) \cup KeysIn(RunEnvDir, last.patterns)
        /\ \A k \in DOMAIN last.config :
               last.config[k] =
                   IF k \in KeysIn(RunEnvDir, last.patterns)
                   THEN ValueIn(RunEnvDir, last.patterns, k)
                   ELSE ValueIn(BaseEnvDir, last.patterns, k)

\* a get over two directories that define the same key with different values,
\* one of them also defining a key the other lacks
C1_Witness ==
    /\ last.op = "get" /\ last.discovered /\ last.kind = "ok"
    /\ BaseEnvDir # RunEnvDir
    /\ \E k \in KeysIn(BaseEnvDir, last.patterns) \cap KeysIn(RunEnvDir, last.patterns) :
           /\ ValueIn(BaseEnvDir, last.patterns, k) # ValueIn(RunEnvDir, last.patterns, k)
           /\ last.config[k] = ValueIn(RunEnvDir, last.patterns, k)
    /\ KeysIn(BaseEnvDir, last.patterns) # KeysIn(RunEnvDir, last.patterns)

----------------------------------------------------------------------------
(* C2 *)

\* C2 as stated: whenever two different matched files of one resolved directory
\* define the same top-level key, discovery-and-merge fails with the
\* duplicate-key error, in get and in get_essential_config alike.
C2_AlwaysDuplicateKeyError ==
    \A r \in Runs : SomeCollision(r.handed) => r.kind = "DuplicateKeyConflict"

\* C2, amended: in that case discovery-and-merge fails and no mapping is
\* returned, whichever directory the collision is in; the error is the
\* duplicate-key error unless a matched file fails to parse, and then it is the
\* duplicate-key error or the parse error.
C2_CollisionAlwaysFails ==
    \A r \in Runs :
        SomeCollision(r.handed) =>
            /\ r.kind \in {"DuplicateKeyConflict", "ParseError"}
            /\ r.config = EmptyMap
            /\ r.warned = 0
            /\ (~SomeUnparseable(r.handed) => r.kind = "DuplicateKeyConflict")

\* a get whose patterns match two colliding files of the base directory, the
\* run-environment directory defining the same key as well
C2_Witness ==
    /\ last.op = "get" /\ last.discovered
    /\ BaseEnvDir # RunEnvDir
    /\ Collision(BaseEnvDir, last.patterns)
    /\ \E k \in KeysIn(RunEnvDir, last.patterns) : k \in KeysIn(BaseEnvDir, last.patterns)
    /\ last.kind = "DuplicateKeyConflict"

----------------------------------------------------------------------------
(* C3 *)

\* C3 as stated: a get call with one or more patterns, none of which matches a
\* supported file in a resolved directory, fails with the missing-configuration
\* error.
C3_NoMatchAlwaysMissing ==
    (last.op = "get" /\ Len(last.patterns) >= 1 /\ NoMatch(last.patterns)) =>
        last.kind = "MissingConfigException"

\* C3, amended: such a call fails with the missing-configuration error, except
\* when it has a single pattern that is a key of the section mapping with a
\* non-empty value, and then it returns that value; it never returns an empty
\* mapping and never emits a warning.
C3_NoMatchMissingOrSection ==
    (last.op = "get" /\ Len(last.patterns) >= 1 /\ NoMatch(last.patterns)) =>
        /\ IF FastPath
           THEN last.kind = "ok" /\ last.config = mapping[last.patterns[1].str]
           ELSE last.kind = "MissingConfigException"
        /\ ~(last.kind = "ok" /\ last.config = EmptyMap)
        /\ last.warned = 0

\* a get for files that do not exist, on a loader whose directories hold others
C3_Witness ==
    /\ last.op = "get" /\ last.discovered
    /\ NoMatch(last.patterns)
    /\ \E d \in ResolvedDirs : DOMAIN FilesIn(d) # {}
    /\ last.kind = "MissingConfigException"

----------------------------------------------------------------------------
(* C4 *)

\* C4: get_essential_config(config_type), called without patterns when no
\* supported file of a resolved directory matches the section's patterns,
\* returns an empty mapping and emits one warning; and a construction over
\* directories without any supported file succeeds, all four sections empty.
C4_MissingSectionIsEmpty ==
    /\ (last.op = "get_essential_config" /\ ~Truthy(last.provided)
            /\ NoMatch(DefaultPatterns(last.config_type))) =>
           (last.kind = "ok" /\ last.config = EmptyMap /\ last.warned = 1)
    /\ (last.op = "__init__"
            /\ \A d \in ResolvedDirs : \A f \in DOMAIN FilesIn(d) :
                   f[Len(f)] \notin SupportedExtensions) =>
           /\ status = "ready"
           /\ mapping = [s \in Sections |-> EmptyMap]
           /\ last.warned = Cardinality(Sections)

\* a loader built over directories without configuration files, all its
\* sections empty, asked for a section again
C4_Witness ==
    /\ last.op = "get_essential_config" /\ last.provided = None
    /\ NoMatch(DefaultPatterns(last.config_type))
    /\ last.kind = "ok" /\ last.config = EmptyMap /\ last.warned = 1
    /\ status = "ready"
    /\ mapping = [s \in Sections |-> EmptyMap]

----------------------------------------------------------------------------
(* C5 *)

\* the pattern list of a section's bootstrap, from the constructor's argument
BootstrapPatterns(s) ==
    << IF Truthy(args[s]) THEN args[s] ELSE Str(s \o <<"*">>),
       Str(s \o <<"*", "/", "*", "*">>), Str(<<"*", "*", "/">> \o s \o <<"*">>) >>

\* C5: when the files matched for get_essential_config collide or fail to
\* parse, the call raises that error: no warning, no empty mapping; and a
\* construction one of whose four bootstraps meets such files fails.
C5_OtherErrorsPropagate ==
    /\ \A r \in Runs :
           (r.op \in {"get_essential_config", "bootstrap"}
                /\ (SomeCollision(r.handed) \/ SomeUnparseable(r.handed))) =>
               /\ r.kind \in {"DuplicateKeyConflict", "ParseError"}
               /\ r.warned = 0
    /\ (last.op = "__init__"
            /\ \E s \in Sections :
                   SomeCollision(BootstrapPatterns(s)) \/ SomeUnparseable(BootstrapPatterns(s))) =>
           /\ status = "failed"
           /\ last.kind \in {"DuplicateKeyConflict", "ParseError"}

\* a construction that failed on two catalog files defining the same key
C5_Witness ==
    /\ last.op = "__init__"
    /\ status = "failed"
    /\ last.kind = "DuplicateKeyConflict"
    /\ SomeCollision(BootstrapPatterns(<<"catalog">>))

----------------------------------------------------------------------------
(* C6 *)

\* C6: conf_paths is [conf_source/base_env, conf_source/run_env] without its
\* duplicates, run_env being env when env is non-empty and default_run_env
\* otherwise: the base path comes first, there are two paths when they differ
\* and one when run_env equals base_env.
C6_ConfPaths ==
    last.op = "conf_paths" =>
        /\ last.paths = IF BaseEnvDir = RunEnvDir THEN <<BaseEnvDir>>
                        ELSE <<BaseEnvDir, RunEnvDir>>
        /\ last.paths[1] = BaseEnvDir
        /\ (RunEnv = base_env => Len(last.paths) = 1)
        /\ (BaseEnvDir # RunEnvDir => Len(last.paths) = 2 /\ last.paths[2] = RunEnvDir)

\* conf_paths of a loader whose env is given and names the base environment,
\* while default_run_env names another one
C6_Witness ==
    /\ last.op = "conf_paths"
    /\ Truthy(env) /\ env.str = base_env /\ default_run_env # base_env
    /\ last.paths = <<BaseEnvDir>>

----------------------------------------------------------------------------
(* C7 *)

\* C7: a get with exactly one pattern that is a key of the section mapping
\* returns the value stored for that key, whatever it is, without running
\* discovery and without raising.
C7_SectionReturnedDirectly ==
    (last.op = "get" /\ Len(last.patterns) = 1
         /\ last.patterns[1].str \in DOMAIN mapping) =>
        /\ last.kind = "ok"
        /\ last.config = mapping[last.patterns[1].str]
        /\ ~last.discovered

----------------------------------------------------------------------------
(* C8 *)

\* C8: a non-empty override given to the constructor for a section bypasses
\* discovery for that section: its bootstrap expands no pattern and the
\* section's value is the override, whatever files there are.
C8_OverrideBypassesDiscovery ==
    last.op = "__init__" =>
        \A i \in 1..Len(last.bootstraps) :
            Truthy(args[last.bootstraps[i].config_type]) =>
                /\ ~last.bootstraps[i].discovered
                /\ last.bootstraps[i].kind = "ok"
                /\ last.bootstraps[i].config = args[last.bootstraps[i].config_type].dict

----------------------------------------------------------------------------
(* C9 *)

\* C9: get_essential_config(config_type) called without patterns hands
\* discovery-and-merge exactly "{type}*", "{type}*/**", "**/{type}*", in that
\* order.
C9_DefaultPatterns ==
    /\ (last.op = "get_essential_config" /\ ~Truthy(last.provided)) =>
           last.handed = DefaultPatterns(last.config_type)
    /\ last.op = "__init__" =>
           \A i \in 1..Len(last.bootstraps) :
               ~Truthy(args[last.bootstraps[i].config_type]) =>
                   last.bootstraps[i].handed = DefaultPatterns(last.bootstraps[i].config_type)

\* get_essential_config("credentials") with its three patterns spelled out
C9_Witness ==
    /\ last.op = "get_essential_config"
    /\ last.provided = None
    /\ last.config_type = <<"credentials">>
    /\ last.handed = << Str(<<"credentials", "*">>),
                        Str(<<"credentials", "*", "/", "*", "*">>),
                        Str(<<"*", "*", "/", "credentials", "*">>) >>

----------------------------------------------------------------------------
(* C10 *)

\* C10: a get call gives what an earlier get call with the same patterns gave,
\* whatever get calls ran in between, and no get call changes conf_source, env,
\* base_env, default_run_env or the section mapping.
C10_GetIdempotentReadOnly ==
    /\ [](  (memo.set /\ last.op = "get" /\ last.patterns = memo.patterns) =>
                (last.kind = memo.kind /\ last.config = memo.config)  )
    /\ [][ last'.op = "get" =>
               UNCHANGED <<conf_source, env, base_env, default_run_env, mapping>> ]_vars

\* a get that ran discovery, compared with a remembered get of the same
\* patterns, a get with other patterns having run in between
C10_Witness ==
    /\ memo.set /\ memo.between
    /\ last.op = "get" /\ last.discovered
    /\ last.patterns = memo.patterns
    /\ last.kind = "ok" /\ last.config # EmptyMap

====
